---- MODULE Spec2Model ----
(***************************************************************************)
(* Resource mutation and voting routes of resources_api                    *)
(* (app/api/routes/resource_modification.py): update_resource,             *)
(* change_votes / update_votes and update_resource_click / add_click,      *)
(* over the committed datastore (Resource, Language, Category,             *)
(* VoteInformation rows) and the external search index.                    *)
(***************************************************************************)
EXTENDS Integers, Sequences, FiniteSets, TLC

(***************************************************************************)
(* Bounds of the model.                                                    *)
(***************************************************************************)
\* vote and click requests handled in one behaviour
MaxRequests == 3
\* keys one update document may carry
MaxDocKeys == 2
\* requests handled in one behaviour of the three routes together, and
\* update requests begun in one behaviour of concurrent updates
MaxServed == 2

(***************************************************************************)
(* Finite universes.                                                       *)
(***************************************************************************)
\* ids of the Resource rows that exist; NoSuchId is an id with no row
ResIds == {1, 2}
NoSuchId == 3
Ids == ResIds \cup {NoSuchId}
\* API keys of authenticated callers; NoKey is g.auth_key = None
ApiKeys == {"A", "B"}
NoKey == "-"
LangNames == {"py", "js"}
CatNames == {"books", "video"}
Texts == {"X"}

VARIABLES
    FLASK_ENV,        \* environ.get("FLASK_ENV")
    Resource,         \* committed Resource rows: id -> row
    Language,         \* committed Language rows, by name (unique)
    Category,         \* committed Category rows, by name (unique)
    VoteInformation,  \* committed ledger: <<apikey, id>> -> direction
    index,            \* the documents of the external search index
    before,           \* history: the committed datastore when the last request began
    last,             \* history: the last request and its response
    clicks,           \* history: per resource, add_click calls that found it
    nvotes,           \* history: vote and click requests handled so far
    nupdates,         \* history: update requests handled so far
    inflight          \* per worker, the request it is serving step by step

vars == <<FLASK_ENV, Resource, Language, Category, VoteInformation, index,
          before, last, clicks, nvotes, nupdates, inflight>>

(***************************************************************************)
(* The vote ledger: update_votes.                                          *)
(***************************************************************************)
\* current_direction of a ledger row; NoRow: VoteInformation.query.get is None
NoRow == "no_row"
Null == "null"
Directions == {"upvote", "downvote"}
RowStates == {NoRow, Null} \cup Directions

\* f"{vote_direction}s" and vote_direction_attribute[:-1]
AttributeOf(vote_direction) == vote_direction \o "s"
DirectionOf(attribute) == CHOOSE d \in Directions : AttributeOf(d) = attribute

OppositeAttribute(attribute) ==
    IF attribute = "upvotes" THEN "downvotes" ELSE "upvotes"

\* number of ledger rows of resource id whose current_direction is d
LedgerCount(ledger, id, d) == Cardinality({k \in ApiKeys : ledger[<<k, id>>] = d})

\* update_votes past the not-found check: the Resource row and the ledger
\* row it commits, from the row read and the ledger row read
CastMissesFlip(resource, vote_info, vote_direction_attribute) ==
    LET vote_direction == DirectionOf(vote_direction_attribute)
        initial_count == resource[vote_direction_attribute]
    IN  IF vote_info = NoRow
        THEN [resource |-> [resource EXCEPT ![vote_direction_attribute] = initial_count + 1],
              vote_info |-> vote_direction]
        ELSE IF vote_info = vote_direction
             THEN [resource |-> [resource EXCEPT ![vote_direction_attribute] = initial_count - 1],
                   vote_info |-> Null]
             ELSE [resource |-> [resource EXCEPT ![vote_direction_attribute] = initial_count + 1],
                   vote_info |-> vote_direction]

CastKeepsDirection(resource, vote_info, vote_direction_attribute) ==
    LET vote_direction == DirectionOf(vote_direction_attribute)
        initial_count == resource[vote_direction_attribute]
    IN  IF vote_info = vote_direction
        THEN [resource |-> [resource EXCEPT ![vote_direction_attribute] = initial_count - 1],
              vote_info |-> vote_direction]
        ELSE [resource |-> [resource EXCEPT ![vote_direction_attribute] = initial_count + 1],
              vote_info |-> vote_direction]

CastDeletesRow(resource, vote_info, vote_direction_attribute) ==
    LET vote_direction == DirectionOf(vote_direction_attribute)
        initial_count == resource[vote_direction_attribute]
        opposite_direction_attribute == OppositeAttribute(vote_direction_attribute)
    IN  IF vote_info = vote_direction
        THEN [resource |-> [resource EXCEPT ![vote_direction_attribute] = initial_count - 1],
              vote_info |-> NoRow]
        ELSE LET flipped == IF vote_info = DirectionOf(opposite_direction_attribute)
                            THEN [resource EXCEPT ![opposite_direction_attribute] = @ - 1]
                            ELSE resource
             IN  [resource |-> [flipped EXCEPT ![vote_direction_attribute] = initial_count + 1],
                  vote_info |-> vote_direction]

Cast(resource, vote_info, vote_direction_attribute) ==
    LET initial_count == resource[vote_direction_attribute]
        vote_direction == DirectionOf(vote_direction_attribute)
        opposite_direction_attribute == OppositeAttribute(vote_direction_attribute)
        opposite_direction == DirectionOf(opposite_direction_attribute)
        opposite_count == resource[opposite_direction_attribute]
    IN  IF vote_info = NoRow
        THEN [resource |-> [resource EXCEPT ![vote_direction_attribute] = initial_count + 1],
              vote_info |-> vote_direction]
        ELSE IF vote_info = vote_direction
             THEN [resource |-> [resource EXCEPT ![vote_direction_attribute] = initial_count - 1],
                   vote_info |-> Null]
             ELSE LET flipped == IF vote_info = opposite_direction
                                 THEN [resource EXCEPT ![opposite_direction_attribute] = opposite_count - 1]
                                 ELSE resource
                  IN  [resource |-> [flipped EXCEPT ![vote_direction_attribute] = initial_count + 1],
                       vote_info |-> vote_direction]

(***************************************************************************)
(* JSON update documents.  A key of a document is absent, null, or holds   *)
(* a value: a set of names for languages, a string for the others (free    *)
(* holds the JSON literal).                                                *)
(***************************************************************************)
DocKeys == {"languages", "category", "name", "url", "free", "notes"}
Absent(blank) == [kind |-> "absent", val |-> blank]
JNull(blank) == [kind |-> "null", val |-> blank]
JValue(v) == [kind |-> "value", val |-> v]
JValues(blank, values) ==
    {Absent(blank), JNull(blank)} \cup {JValue(v) : v \in values}

AllDocs ==
    [languages : JValues({}, SUBSET LangNames),
     category  : JValues("", {""} \cup CatNames),
     name      : JValues("", {""} \cup Texts),
     url       : JValues("", {""} \cup Texts),
     free      : JValues("", {"", "false", "true"}),
     notes     : JValues("", {""} \cup Texts)]

\* 'k' in json
Has(json, k) == json[k].kind # "absent"
\* json.get(k): None for an absent key and for a null value
Get(json, k) == IF json[k].kind = "value" THEN json[k] ELSE JNull(json[k].val)
IsNone(v) == v.kind # "value"
\* Python truth of a string-or-None value
Truthy(v) == v.kind = "value" /\ v.val # ""

Docs == {json \in AllDocs : Cardinality({k \in DocKeys : Has(json, k)}) <= MaxDocKeys}

\* documents that replace languages, category or both
TagDocs ==
    {json \in AllDocs :
        /\ \A k \in DocKeys \ {"languages", "category"} : ~Has(json, k)
        /\ json.languages.kind # "null"
        /\ json.category.kind # "null" /\ json.category.val \in {""} \cup CatNames
        /\ Has(json, "category") => Truthy(Get(json, "category"))}

\* helpers.get_attributes: the Language and Category entities named by the
\* document, existing rows reused by name, unseen names as new rows
get_attributes(json) ==
    [langs |-> IF IsNone(Get(json, "languages")) THEN {} ELSE Get(json, "languages").val,
     categ |-> Get(json, "category").val]

\* helpers.ensure_bool: permissive boolean parser
ensure_bool(v) == v.kind = "value" /\ v.val \in {"true", "yes", "1"}

(***************************************************************************)
(* update_resource.  A session is the unit of work of one request: the     *)
(* rows as the request sees them, and the index_object it builds.          *)
(***************************************************************************)
BlankPatch(id) ==
    [keys |-> {"objectID"}, objectID |-> id, languages |-> {}, category |-> "",
     name |-> "", url |-> "", free |-> FALSE, notes |-> JNull("")]

BeginSession(id) ==
    [Resource |-> Resource, Language |-> Language, Category |-> Category,
     index_object |-> BlankPatch(id)]

get_unique_resource_languages_as_strings(s) ==
    UNION {s.Resource[r].languages : r \in ResIds}

get_unique_resource_categories_as_strings(s) ==
    {s.Resource[r].category : r \in ResIds}

Stage(s, k, v) ==
    [s EXCEPT !.index_object.keys = @ \cup {k}, !.index_object[k] = v]

ApplyLanguagesNoCleanup(s, id, json) ==
    IF ~IsNone(Get(json, "languages"))
    THEN LET langs == get_attributes(json).langs
         IN  Stage([s EXCEPT !.Resource[id].languages = langs,
                             !.Language = @ \cup langs],
                   "languages", langs)
    ELSE s

ApplyLanguagesDeletesOld(s, id, json) ==
    IF ~IsNone(Get(json, "languages"))
    THEN LET old_languages == s.Resource[id].languages
             langs == get_attributes(json).langs
             s1 == Stage([s EXCEPT !.Resource[id].languages = langs,
                                   !.Language = @ \cup langs],
                         "languages", langs)
         IN  [s1 EXCEPT !.Language = @ \ {language \in old_languages : language \notin langs}]
    ELSE s

ApplyLanguages(s, id, json) ==
    IF ~IsNone(Get(json, "languages"))
    THEN LET old_languages == s.Resource[id].languages
             langs == get_attributes(json).langs
             s1 == Stage([s EXCEPT !.Resource[id].languages = langs,
                                   !.Language = @ \cup langs],
                         "languages", langs)
             resource_languages == get_unique_resource_languages_as_strings(s1)
         IN  [s1 EXCEPT !.Language =
                  @ \ {language \in old_languages : language \notin resource_languages}]
    ELSE s

ApplyCategory(s, id, json) ==
    IF Truthy(Get(json, "category"))
    THEN LET old_category == s.Resource[id].category
             categ == get_attributes(json).categ
             s1 == Stage([s EXCEPT !.Resource[id].category = categ,
                                   !.Category = @ \cup {categ}],
                         "category", categ)
             resource_categories == get_unique_resource_categories_as_strings(s1)
         IN  IF old_category \notin resource_categories
             THEN [s1 EXCEPT !.Category = @ \ {old_category}]
             ELSE s1
    ELSE s

ApplyNameIfNotNone(s, id, json) ==
    IF ~IsNone(Get(json, "name"))
    THEN Stage([s EXCEPT !.Resource[id].name = Get(json, "name").val],
               "name", Get(json, "name").val)
    ELSE s

ApplyName(s, id, json) ==
    IF Truthy(Get(json, "name"))
    THEN Stage([s EXCEPT !.Resource[id].name = Get(json, "name").val],
               "name", Get(json, "name").val)
    ELSE s

ApplyUrl(s, id, json) ==
    IF Truthy(Get(json, "url"))
    THEN Stage([s EXCEPT !.Resource[id].url = Get(json, "url").val],
               "url", Get(json, "url").val)
    ELSE s

ApplyFree(s, id, json) ==
    IF Has(json, "free")
    THEN LET free == ensure_bool(Get(json, "free"))
         IN  Stage([s EXCEPT !.Resource[id].free = free], "free", free)
    ELSE s

ApplyNotesAlways(s, id, json) ==
    Stage([s EXCEPT !.Resource[id].notes = Get(json, "notes")],
          "notes", Get(json, "notes"))

ApplyNotes(s, id, json) ==
    IF Has(json, "notes")
    THEN Stage([s EXCEPT !.Resource[id].notes = Get(json, "notes")],
               "notes", Get(json, "notes"))
    ELSE s

\* the body of the try block up to the index call
ApplyFields(s, id, json) ==
    ApplyNotes(ApplyFree(ApplyUrl(ApplyName(ApplyCategory(ApplyLanguages(s, id, json),
        id, json), id, json), id, json), id, json), id, json)

\* index.partial_update_object: the index document after the patch
partial_update_object(document, index_object) ==
    [k \in DOMAIN document |->
        IF k \in index_object.keys THEN index_object[k] ELSE document[k]]

\* what the environment does to one update request: an exception raised
\* while the fields are applied (the autoflush of the scans included), by
\* the index call, and by the commit
AlgoliaExceptions == {"AlgoliaUnreachableHostException", "AlgoliaException"}
Faults ==
    {e \in [apply  : {"ok", "IntegrityError", "Exception"},
            index  : {"ok", "Exception"} \cup AlgoliaExceptions,
            commit : {"ok", "IntegrityError", "Exception"}] :
        /\ e.apply # "ok" => e.index = "ok" /\ e.commit = "ok"
        /\ e.index = "Exception" => e.commit = "ok"}

StatusOf(exception) == IF exception = "IntegrityError" THEN 422 ELSE 500

\* the index unreachable, the commit refused, or neither
TagFaults ==
    {e \in Faults :
        /\ e.apply = "ok"
        /\ e.index \in {"ok", "AlgoliaUnreachableHostException"}
        /\ e.commit \in {"ok", "IntegrityError"}
        /\ e.index = "ok" \/ e.commit = "ok"}

StrictNever(flask_env) == FALSE

StrictAlways(flask_env) == TRUE

\* environ.get("FLASK_ENV") != 'development'
Strict(flask_env) == flask_env # "development"

OutcomeCommitsFirst(flask_env, e) ==
    IF e.apply # "ok"
    THEN [steps |-> <<"query", "apply">>, index_call |-> "none",
          raised |-> e.apply, status |-> StatusOf(e.apply)]
    ELSE IF e.commit # "ok"
    THEN [steps |-> <<"query", "apply", "commit">>, index_call |-> "none",
          raised |-> e.commit, status |-> StatusOf(e.commit)]
    ELSE IF e.index = "Exception" \/ (e.index \in AlgoliaExceptions /\ Strict(flask_env))
    THEN [steps |-> <<"query", "apply", "commit", "index">>, index_call |-> e.index,
          raised |-> "none", status |-> 500]
    ELSE [steps |-> <<"query", "apply", "commit", "index">>, index_call |-> e.index,
          raised |-> "none", status |-> 200]

OutcomeIndexFirst(flask_env, e) ==
    IF e.index = "Exception" \/ (e.index \in AlgoliaExceptions /\ Strict(flask_env))
    THEN [steps |-> <<"index">>, index_call |-> e.index,
          raised |-> "none", status |-> 500]
    ELSE IF e.apply # "ok"
    THEN [steps |-> <<"index", "query", "apply">>, index_call |-> e.index,
          raised |-> e.apply, status |-> StatusOf(e.apply)]
    ELSE IF e.commit # "ok"
    THEN [steps |-> <<"index", "query", "apply", "commit">>, index_call |-> e.index,
          raised |-> e.commit, status |-> StatusOf(e.commit)]
    ELSE [steps |-> <<"index", "query", "apply", "commit">>, index_call |-> e.index,
          raised |-> "none", status |-> 200]

\* the path of update_resource from the try block on: which steps run and
\* the status returned
Outcome(flask_env, e) ==
    IF e.apply # "ok"
    THEN [steps |-> <<"query", "apply">>, index_call |-> "none",
          raised |-> e.apply, status |-> StatusOf(e.apply)]
    ELSE IF e.index = "Exception"
    THEN [steps |-> <<"query", "apply", "index">>, index_call |-> e.index,
          raised |-> e.index, status |-> 500]
    ELSE IF e.index \in AlgoliaExceptions /\ Strict(flask_env)
    THEN [steps |-> <<"query", "apply", "index">>, index_call |-> e.index,
          raised |-> "none", status |-> 500]
    ELSE IF e.commit # "ok"
    THEN [steps |-> <<"query", "apply", "index", "commit">>, index_call |-> e.index,
          raised |-> e.commit, status |-> StatusOf(e.commit)]
    ELSE [steps |-> <<"query", "apply", "index", "commit">>, index_call |-> e.index,
          raised |-> "none", status |-> 200]

PersistedAlways(session, datastore, out) ==
    [Resource |-> session.Resource, Language |-> session.Language,
     Category |-> session.Category]

\* the committed rows once the request is over: db.session.commit() makes
\* the session's rows the committed ones; a request that returns without a
\* successful commit leaves the committed rows as they were
Persisted(session, datastore, out) ==
    IF out.status = 200
    THEN [Resource |-> session.Resource, Language |-> session.Language,
          Category |-> session.Category]
    ELSE [Resource |-> datastore.Resource, Language |-> datastore.Language,
          Category |-> datastore.Category]

Snapshot ==
    [Resource |-> Resource, Language |-> Language, Category |-> Category,
     VoteInformation |-> VoteInformation, index |-> index]

BlankRow ==
    [name |-> "", url |-> "", free |-> FALSE, notes |-> JNull(""),
     languages |-> {}, category |-> "",
     upvotes |-> 0, downvotes |-> 0, times_clicked |-> 0]
BlankPair == [row |-> NoRow, upvotes |-> 0, downvotes |-> 0]
EmptyDoc == CHOOSE json \in AllDocs : \A k \in DocKeys : ~Has(json, k)
NoRequest ==
    [op |-> "none", id |-> 0, key |-> NoKey, status |-> 0,
     json |-> EmptyDoc, index_object |-> BlankPatch(0), index_call |-> "none",
     raised |-> "none", steps |-> <<>>, data |-> BlankRow,
     direction |-> "", pre |-> BlankPair, twice |-> FALSE, first |-> BlankPair]

Redirect404(op, id, key) ==
    [NoRequest EXCEPT !.op = op, !.id = id, !.key = key, !.status = 302]

update_resource(id, json, key, e) ==
    /\ before' = Snapshot
    /\ UNCHANGED <<FLASK_ENV, VoteInformation, clicks, nvotes, inflight>>
    /\ IF id \notin ResIds
       THEN /\ last' = [Redirect404("update", id, key) EXCEPT !.json = json]
            /\ UNCHANGED <<Resource, Language, Category, index>>
       ELSE LET session == ApplyFields(BeginSession(id), id, json)
                out == Outcome(FLASK_ENV, e)
                db == Persisted(session, Snapshot, out)
            IN  /\ Resource' = db.Resource
                /\ Language' = db.Language
                /\ Category' = db.Category
                /\ index' = IF out.index_call = "ok"
                            THEN [index EXCEPT ![id] =
                                     partial_update_object(@, session.index_object)]
                            ELSE index
                /\ last' = [NoRequest EXCEPT
                               !.op = "update", !.id = id, !.key = key, !.json = json,
                               !.status = out.status, !.steps = out.steps,
                               !.index_call = out.index_call, !.raised = out.raised,
                               !.index_object = session.index_object,
                               !.data = IF out.status = 200 THEN session.Resource[id]
                                        ELSE BlankRow]

\* PUT /resources/<id>.  One update request is served from each initial
\* datastore: InitUpdate supplies the datastores earlier requests leave.
put_resource ==
    /\ nupdates = 0
    /\ nupdates' = nupdates + 1
    /\ \E id \in Ids, json \in Docs, key \in {"A"}, e \in Faults :
           update_resource(id, json, key, e)

update_votes(id, vote_direction_attribute, key) ==
    /\ before' = Snapshot
    /\ UNCHANGED <<FLASK_ENV, Language, Category, index, clicks, nupdates, inflight>>
    /\ IF id \notin ResIds
       THEN /\ last' = [Redirect404("vote", id, key) EXCEPT
                           !.direction = DirectionOf(vote_direction_attribute)]
            /\ UNCHANGED <<Resource, VoteInformation>>
       ELSE LET vote_info == VoteInformation[<<key, id>>]
                cast == Cast(Resource[id], vote_info, vote_direction_attribute)
                pre == [row |-> vote_info, upvotes |-> Resource[id].upvotes,
                        downvotes |-> Resource[id].downvotes]
                twice == /\ last.op = "vote" /\ last.status = 200
                         /\ last.id = id /\ last.key = key
                         /\ last.direction = DirectionOf(vote_direction_attribute)
            IN  /\ Resource' = [Resource EXCEPT ![id] = cast.resource]
                /\ VoteInformation' = [VoteInformation EXCEPT ![<<key, id>>] = cast.vote_info]
                /\ last' = [NoRequest EXCEPT
                               !.op = "vote", !.id = id, !.key = key, !.status = 200,
                               !.direction = DirectionOf(vote_direction_attribute),
                               !.data = cast.resource, !.pre = pre, !.twice = twice,
                               !.first = IF twice THEN last.pre ELSE pre]

change_votes_validates_late ==
    /\ nvotes < MaxRequests
    /\ nvotes' = nvotes + 1
    /\ \E id \in Ids, vote_direction \in Directions \cup {"sideways"}, key \in ApiKeys :
           IF vote_direction \in {"upvote", "downvote"}
           THEN update_votes(id, AttributeOf(vote_direction), key)
           ELSE /\ last' = [Redirect404("vote", id, key) EXCEPT !.direction = vote_direction]
                /\ before' = Snapshot
                /\ VoteInformation' =
                       [p \in DOMAIN VoteInformation |->
                           IF p = <<key, id>> THEN "downvote" ELSE VoteInformation[p]]
                /\ UNCHANGED <<FLASK_ENV, Resource, Language, Category,
                               index, clicks, nupdates, inflight>>

\* PUT /resources/<id>/<vote_direction>
change_votes ==
    /\ nvotes < MaxRequests
    /\ nvotes' = nvotes + 1
    /\ \E id \in Ids, vote_direction \in Directions \cup {"sideways"}, key \in ApiKeys :
           IF vote_direction \in {"upvote", "downvote"}
           THEN update_votes(id, AttributeOf(vote_direction), key)
           ELSE /\ last' = [Redirect404("vote", id, key) EXCEPT !.direction = vote_direction]
                /\ before' = Snapshot
                /\ UNCHANGED <<FLASK_ENV, Resource, Language, Category, VoteInformation,
                               index, clicks, nupdates, inflight>>

ClickedLost(resource) == [resource EXCEPT !.times_clicked = 1]

Clicked(resource) ==
    LET initial_count == resource.times_clicked
    IN  [resource EXCEPT !.times_clicked = initial_count + 1]

add_click(id, key) ==
    /\ before' = Snapshot
    /\ UNCHANGED <<FLASK_ENV, Language, Category, VoteInformation, index, nupdates, inflight>>
    /\ IF id \notin ResIds
       THEN /\ last' = Redirect404("click", id, key)
            /\ UNCHANGED <<Resource, clicks>>
       ELSE /\ Resource' = [Resource EXCEPT ![id] = Clicked(@)]
            /\ clicks' = [clicks EXCEPT ![id] = @ + 1]
            /\ last' = [NoRequest EXCEPT
                           !.op = "click", !.id = id, !.key = key, !.status = 200,
                           !.data = Clicked(Resource[id])]

\* PUT /resources/<id>/click
update_resource_click ==
    /\ nvotes < MaxRequests
    /\ nvotes' = nvotes + 1
    /\ \E id \in Ids, key \in ApiKeys \cup {NoKey} : add_click(id, key)

(***************************************************************************)
(* Concurrent requests.  Each worker serves one request at a time, and the *)
(* requests of different workers interleave between their steps.  The      *)
(* datastore is read committed (the isolation section 5 of the             *)
(* specification names): a request reads the rows committed when it reads, *)
(* its own changes stay in its session until its commit, and its commit    *)
(* writes the columns it set and the rows it added or deleted.             *)
(***************************************************************************)
Workers == {"w1", "w2"}

BlankSession ==
    [Resource |-> [r \in ResIds |-> BlankRow], Language |-> {}, Category |-> {},
     index_object |-> BlankPatch(0)]

IdleRequest ==
    [pc |-> "idle", op |-> "none", id |-> 0, key |-> NoKey, attribute |-> "",
     json |-> EmptyDoc, resource |-> BlankRow, vote_info |-> NoRow,
     session |-> BlankSession, status |-> 0]

Serving(w, pc, op) == inflight[w].pc = pc /\ inflight[w].op = op
Free(w) == inflight[w].pc \in {"idle", "done"}

\* update_votes up to the ledger lookup: the request holds the Resource row
\* and the ledger row it read
update_votes_read(w) ==
    /\ Free(w)
    /\ nvotes < MaxRequests
    /\ nvotes' = nvotes + 1
    /\ \E id \in Ids, vote_direction_attribute \in {"upvotes", "downvotes"}, key \in ApiKeys :
           inflight' = [inflight EXCEPT ![w] =
               IF id \notin ResIds
               THEN [IdleRequest EXCEPT !.pc = "done", !.op = "vote", !.id = id,
                                        !.key = key, !.status = 302]
               ELSE [IdleRequest EXCEPT
                        !.pc = "read", !.op = "vote", !.id = id, !.key = key,
                        !.attribute = vote_direction_attribute,
                        !.resource = Resource[id],
                        !.vote_info = VoteInformation[<<key, id>>]]]
    /\ UNCHANGED <<FLASK_ENV, Resource, Language, Category, VoteInformation, index,
                   before, last, clicks, nupdates>>

\* the columns of the row the request set to a new value
Written(read, set) ==
    {k \in {"upvotes", "downvotes", "times_clicked"} : set[k] # read[k]}

\* update_votes from the ledger branches to the commit: the counters are
\* computed from the row read; the commit writes the counters set and
\* inserts or updates the ledger row.  The insert of a row another request
\* has inserted meanwhile violates the primary key: the commit raises and
\* the request ends with nothing committed.
update_votes_commit(w) ==
    /\ Serving(w, "read", "vote")
    /\ LET r == inflight[w]
           cast == Cast(r.resource, r.vote_info, r.attribute)
           duplicate == r.vote_info = NoRow /\ VoteInformation[<<r.key, r.id>>] # NoRow
       IN  IF duplicate
           THEN /\ inflight' = [inflight EXCEPT ![w] =
                       [IdleRequest EXCEPT !.pc = "done", !.op = "vote", !.id = r.id,
                                           !.key = r.key, !.status = 500]]
                /\ UNCHANGED <<Resource, VoteInformation>>
           ELSE /\ Resource' = [Resource EXCEPT ![r.id] =
                       [k \in DOMAIN @ |->
                           IF k \in Written(r.resource, cast.resource)
                           THEN cast.resource[k] ELSE @[k]]]
                /\ VoteInformation' = [VoteInformation EXCEPT ![<<r.key, r.id>>] = cast.vote_info]
                /\ inflight' = [inflight EXCEPT ![w] =
                       [IdleRequest EXCEPT !.pc = "done", !.op = "vote", !.id = r.id,
                                           !.key = r.key, !.status = 200]]
    /\ UNCHANGED <<FLASK_ENV, Language, Category, index, before, last, clicks,
                   nvotes, nupdates>>

\* add_click up to the read of times_clicked
add_click_read(w) ==
    /\ Free(w)
    /\ nvotes < MaxRequests
    /\ nvotes' = nvotes + 1
    /\ \E id \in Ids, key \in {NoKey} :
           inflight' = [inflight EXCEPT ![w] =
               IF id \notin ResIds
               THEN [IdleRequest EXCEPT !.pc = "done", !.op = "click", !.id = id,
                                        !.key = key, !.status = 302]
               ELSE [IdleRequest EXCEPT
                        !.pc = "read", !.op = "click", !.id = id, !.key = key,
                        !.resource = Resource[id]]]
    /\ UNCHANGED <<FLASK_ENV, Resource, Language, Category, VoteInformation, index,
                   before, last, clicks, nupdates>>

\* add_click: the setattr of the value read plus one, and the commit
add_click_commit(w) ==
    /\ Serving(w, "read", "click")
    /\ LET r == inflight[w]
       IN  /\ Resource' = [Resource EXCEPT ![r.id].times_clicked =
                              Clicked(r.resource).times_clicked]
           /\ inflight' = [inflight EXCEPT ![w] =
                  [IdleRequest EXCEPT !.pc = "done", !.op = "click", !.id = r.id,
                                      !.key = r.key, !.status = 200]]
    /\ UNCHANGED <<FLASK_ENV, Language, Category, VoteInformation, index, before, last,
                   clicks, nvotes, nupdates>>

\* documents that replace languages only
LanguageDocs == {json \in TagDocs : Has(json, "languages") /\ ~Has(json, "category")}

\* update_resource up to the index call: the resource read, the fields
\* applied in the request's session and the scans made over the committed
\* rows of the other resources.  The documents drawn drop languages of the
\* resource and add none.
update_resource_read(w) ==
    /\ Free(w)
    /\ nupdates < MaxServed
    /\ nupdates' = nupdates + 1
    /\ \E id \in Ids, json \in LanguageDocs, key \in {"A"} :
           /\ id \in ResIds => get_attributes(json).langs \subseteq Resource[id].languages
           /\ inflight' = [inflight EXCEPT ![w] =
                  IF id \notin ResIds
                  THEN [IdleRequest EXCEPT !.pc = "done", !.op = "update", !.id = id,
                                           !.key = key, !.json = json, !.status = 302]
                  ELSE [IdleRequest EXCEPT
                           !.pc = "staged", !.op = "update", !.id = id, !.key = key,
                           !.json = json, !.resource = Resource[id],
                           !.session = ApplyFields(BeginSession(id), id, json)]]
    /\ UNCHANGED <<FLASK_ENV, Resource, Language, Category, VoteInformation, index,
                   before, last, clicks, nvotes>>

\* the index call and the handler of its exceptions
update_resource_index(w) ==
    /\ Serving(w, "staged", "update")
    /\ \E result \in {"ok", "AlgoliaUnreachableHostException"} :
           LET r == inflight[w]
           IN  IF result = "ok"
               THEN /\ index' = [index EXCEPT ![r.id] =
                           partial_update_object(@, r.session.index_object)]
                    /\ inflight' = [inflight EXCEPT ![w].pc = "indexed"]
               ELSE /\ index' = index
                    /\ inflight' = [inflight EXCEPT ![w] =
                           IF Strict(FLASK_ENV)
                           THEN [r EXCEPT !.pc = "done", !.status = 500]
                           ELSE [r EXCEPT !.pc = "indexed"]]
    /\ UNCHANGED <<FLASK_ENV, Resource, Language, Category, VoteInformation,
                   before, last, clicks, nvotes, nupdates>>

\* db.session.commit(): the fields the request set are written to its
\* resource, the tag rows its session added are inserted and the ones its
\* cleanup deleted are deleted
update_resource_commit(w) ==
    /\ Serving(w, "indexed", "update")
    /\ LET r == inflight[w]
           seen == r.session.index_object.keys
           staged == r.session.Resource[r.id]
           old_languages == r.resource.languages
           old_category == r.resource.category
           added == [Language |-> staged.languages \ old_languages,
                     Category |-> {staged.category} \ {old_category}]
           deleted == [Language |-> old_languages \ r.session.Language,
                       Category |-> {old_category} \ r.session.Category]
       IN  /\ Resource' = [Resource EXCEPT ![r.id] =
                  [k \in DOMAIN @ |-> IF k \in seen THEN staged[k] ELSE @[k]]]
           /\ Language' = (Language \ deleted.Language) \cup added.Language
           /\ Category' = (Category \ deleted.Category) \cup added.Category
           /\ inflight' = [inflight EXCEPT ![w] = [r EXCEPT !.pc = "done", !.status = 200]]
    /\ UNCHANGED <<FLASK_ENV, VoteInformation, index, before, last, clicks,
                   nvotes, nupdates>>

(***************************************************************************)
(* Initial datastores and the specifications.                              *)
(***************************************************************************)
Row(languages, category, up, down, clicked) ==
    [name |-> "old", url |-> "old", free |-> TRUE, notes |-> JValue("old"),
     languages |-> languages, category |-> category,
     upvotes |-> up, downvotes |-> down, times_clicked |-> clicked]

IndexDocument(row) ==
    [languages |-> row.languages, category |-> row.category, name |-> row.name,
     url |-> row.url, free |-> row.free, notes |-> row.notes]

InitialClicks == [id \in ResIds |-> IF id = 1 THEN 0 ELSE 7]

InitWith(languages, categories, ledger) ==
    /\ Resource = [id \in ResIds |->
           Row(languages[id], categories[id],
               LedgerCount(ledger, id, "upvote"), LedgerCount(ledger, id, "downvote"),
               InitialClicks[id])]
    /\ Language = UNION {languages[id] : id \in ResIds}
    /\ Category = {categories[id] : id \in ResIds}
    /\ VoteInformation = ledger
    /\ index = [id \in ResIds |-> IndexDocument(Resource[id])]
    /\ before = Snapshot
    /\ last = NoRequest
    /\ clicks = [id \in ResIds |-> 0]
    /\ nvotes = 0
    /\ nupdates = 0
    /\ inflight = [w \in Workers |-> IdleRequest]

\* every ledger of resource 1, none of resource 2, the counters equal to
\* the ledger's counts; one tag assignment
InitVotes ==
    /\ FLASK_ENV = "production"
    /\ \E ledger \in [ApiKeys \X ResIds -> RowStates] :
           /\ \A key \in ApiKeys : ledger[<<key, 2>>] = NoRow
           /\ InitWith([id \in ResIds |-> {"py"}], [id \in ResIds |-> "books"], ledger)

\* tag assignments in which a tag of one resource is or is not shared with
\* the other, no ledger rows; both environments
InitUpdate ==
    /\ FLASK_ENV \in {"production", "development"}
    /\ \E languages \in [ResIds -> SUBSET LangNames], categories \in [ResIds -> CatNames] :
           /\ languages[2] \subseteq {"py"}
           /\ categories[2] = "books"
           /\ InitWith(languages, categories, [p \in ApiKeys \X ResIds |-> NoRow])

NextVotes == change_votes \/ update_resource_click

NextUpdate == put_resource

SpecVotes == InitVotes /\ [][NextVotes]_vars

SpecUpdate == InitUpdate /\ [][NextUpdate]_vars

(***************************************************************************)
(* The three routes together: update, vote and click requests served one   *)
(* at a time in any order, the updates carrying tag documents.             *)
(***************************************************************************)
Served == nvotes + nupdates

\* PUT /resources/<id> with a tag document, any number of times
put_resource_tags ==
    /\ Served < MaxServed
    /\ nupdates' = nupdates + 1
    /\ \E id \in Ids, json \in TagDocs, key \in {"A"}, e \in TagFaults :
           update_resource(id, json, key, e)

\* one language shared by both resources and one of resource 1 alone, one
\* category shared; no ledger rows
InitRoutes ==
    /\ FLASK_ENV = "production"
    /\ InitWith([id \in ResIds |-> IF id = 1 THEN {"py", "js"} ELSE {"py"}],
                [id \in ResIds |-> "books"],
                [p \in ApiKeys \X ResIds |-> NoRow])

NextRoutes ==
    \/ Served < MaxServed /\ change_votes
    \/ Served < MaxServed /\ update_resource_click
    \/ put_resource_tags

SpecRoutes == InitRoutes /\ [][NextRoutes]_vars

\* vote and click requests of several workers, step by step
NextRaceVotes ==
    \E w \in Workers :
        \/ update_votes_read(w)
        \/ update_votes_commit(w)
        \/ add_click_read(w)
        \/ add_click_commit(w)

SpecRaceVotes == InitVotes /\ [][NextRaceVotes]_vars

\* update requests of several workers, step by step
NextRaceUpdate ==
    \E w \in Workers :
        \/ update_resource_read(w)
        \/ update_resource_index(w)
        \/ update_resource_commit(w)

SpecRaceUpdate == InitUpdate /\ [][NextRaceUpdate]_vars

(***************************************************************************)
(* Properties.                                                             *)
(***************************************************************************)
Other(d) == IF d = "upvote" THEN "downvote" ELSE "upvote"
Counter(row, d) == IF d = "upvote" THEN row.upvotes ELSE row.downvotes
StateOf(row) == IF row \in {"upvote", "downvote"} THEN row ELSE "NONE"
VoteServed == last.op = "vote" /\ last.status = 200
UpdateServed == last.op = "update" /\ last.id \in ResIds
Committed == [Resource |-> Resource, Language |-> Language, Category |-> Category]
CommittedBefore ==
    [Resource |-> before.Resource, Language |-> before.Language,
     Category |-> before.Category]

\* C1: one cast follows the vote transition table: the same direction as
\* the pair's state gives NONE and that counter one lower, the other counter
\* unchanged; the opposite direction gives the cast direction, the old
\* counter one lower and the cast one one higher; from NONE (no row, or a
\* row of direction null) the cast direction, its counter one higher and
\* the other unchanged.
C1_VoteTransitionTable ==
    VoteServed =>
        LET d == last.direction
            s == StateOf(last.pre.row)
            now == Resource[last.id]
            state == StateOf(VoteInformation[<<last.key, last.id>>])
        IN  IF s = d
            THEN /\ state = "NONE"
                 /\ Counter(now, d) = Counter(last.pre, d) - 1
                 /\ Counter(now, Other(d)) = Counter(last.pre, Other(d))
            ELSE IF s = Other(d)
            THEN /\ state = d
                 /\ Counter(now, Other(d)) = Counter(last.pre, Other(d)) - 1
                 /\ Counter(now, d) = Counter(last.pre, d) + 1
            ELSE /\ state = d
                 /\ Counter(now, d) = Counter(last.pre, d) + 1
                 /\ Counter(now, Other(d)) = Counter(last.pre, Other(d))

\* a downvoted pair has been flipped by an upvote
C1_Witness ==
    /\ VoteServed
    /\ last.pre.row = "downvote"
    /\ last.direction = "upvote"
    /\ VoteInformation[<<last.key, last.id>>] = "upvote"

\* C2: after any sequence of casts served one at a time, every resource's
\* upvotes is the number of its ledger rows of direction upvote, and its
\* downvotes the number of direction downvote.
C2_CountersMatchLedger ==
    \A id \in ResIds :
        /\ Resource[id].upvotes =
               Cardinality({key \in ApiKeys : VoteInformation[<<key, id>>] = "upvote"})
        /\ Resource[id].downvotes =
               Cardinality({key \in ApiKeys : VoteInformation[<<key, id>>] = "downvote"})

\* two voters hold opposite votes on a resource after a flip
C2_Witness ==
    /\ VoteServed
    /\ nvotes >= 3
    /\ StateOf(last.pre.row) = Other(last.direction)
    /\ Resource[last.id].upvotes = 1
    /\ Resource[last.id].downvotes = 1

\* C3 as stated: casting d twice in a row leaves the pair NONE and both
\* counters at their values from before the first cast, whatever the pair's
\* state before the first cast.
C3_TwiceRestoresFromAnyState ==
    (VoteServed /\ last.twice) =>
        /\ StateOf(VoteInformation[<<last.key, last.id>>]) = "NONE"
        /\ Resource[last.id].upvotes = last.first.upvotes
        /\ Resource[last.id].downvotes = last.first.downvotes

\* C3, amended: casting d twice in a row leaves the pair NONE with both
\* counters restored when the pair was NONE before the first cast; leaves
\* the pair in state d with both counters restored when it was d; and
\* leaves the pair NONE, d's counter restored and the opposite counter one
\* lower when it was the opposite direction.
C3_TwiceByFirstState ==
    (VoteServed /\ last.twice) =>
        LET d == last.direction
            s == StateOf(last.first.row)
            now == Resource[last.id]
            state == StateOf(VoteInformation[<<last.key, last.id>>])
        IN  /\ Counter(now, d) = Counter(last.first, d)
            /\ s = "NONE" =>
                   state = "NONE" /\ Counter(now, Other(d)) = Counter(last.first, Other(d))
            /\ s = d =>
                   state = d /\ Counter(now, Other(d)) = Counter(last.first, Other(d))
            /\ s = Other(d) =>
                   state = "NONE" /\ Counter(now, Other(d)) = Counter(last.first, Other(d)) - 1

\* the same cast has been served twice in a row from a pair with no vote
C3_Witness ==
    /\ VoteServed
    /\ last.twice
    /\ StateOf(last.first.row) = "NONE"
    /\ StateOf(VoteInformation[<<last.key, last.id>>]) = "NONE"

\* C8: N add_click calls on a resource, by callers with or without an API
\* key, raise its times_clicked by exactly N.
C8_ClicksCounted ==
    \A id \in ResIds : Resource[id].times_clicked = InitialClicks[id] + clicks[id]

\* a resource has been clicked twice, the last time by a caller with no key
C8_Witness ==
    /\ last.op = "click" /\ last.status = 200
    /\ last.key = NoKey
    /\ clicks[last.id] >= 2

\* C4: in strict mode an index call that fails with an unreachable-host or
\* generic index exception ends the request with status 500 and leaves the
\* committed resources and Language and Category rows as before the request.
C4_StrictIndexFailureAtomic ==
    (/\ UpdateServed
     /\ FLASK_ENV # "development"
     /\ last.index_call \in {"AlgoliaUnreachableHostException", "AlgoliaException"}) =>
        /\ last.status = 500
        /\ Committed = CommittedBefore

\* in strict mode the index call failed on a request whose languages
\* replacement would have changed the Language rows
C4_Witness ==
    /\ UpdateServed
    /\ FLASK_ENV = "production"
    /\ last.index_call = "AlgoliaUnreachableHostException"
    /\ "languages" \in last.index_object.keys
    /\ last.index_object.languages # Resource[last.id].languages
    /\ \E l \in Resource[last.id].languages :
           \A r \in ResIds \ {last.id} : l \notin Resource[r].languages

\* C5: after an update that commits, every Language the resource had before
\* and its Category of before exist exactly when some resource still
\* references them.
C5_OrphanCleanup ==
    (UpdateServed /\ last.status = 200) =>
        /\ \A l \in before.Resource[last.id].languages :
               l \in Language <=> \E r \in ResIds : l \in Resource[r].languages
        /\ LET c == before.Resource[last.id].category
           IN  c \in Category <=> \E r \in ResIds : Resource[r].category = c

\* one language of the resource was dropped and deleted, another was
\* dropped and survives on the other resource
C5_Witness ==
    /\ UpdateServed /\ last.status = 200
    /\ \E l1 \in before.Resource[last.id].languages :
           l1 \notin Resource[last.id].languages /\ l1 \notin Language
    /\ \E l2 \in before.Resource[last.id].languages :
           l2 \notin Resource[last.id].languages /\ l2 \in Language

Field(json, k) == json[k]
RuleApplied(json) ==
    {k \in {"languages"} : Field(json, k).kind = "value"}
    \cup {k \in {"category", "name", "url"} :
              Field(json, k).kind = "value" /\ Field(json, k).val # ""}
    \cup {k \in {"free", "notes"} : Field(json, k).kind \in {"null", "value"}}

\* C6: every field whose key is not in the patch keeps its pre-update
\* value and every field whose key is in it has the patch's value once
\* committed; the patch holds objectID and keys of the document only; a
\* document holding only a name changes only name and its patch holds only
\* objectID and name.
C6_PartialUpdateIsolation ==
    (UpdateServed /\ last.index_call # "none") =>
        LET keys == last.index_object.keys
            present == {k \in DocKeys : Field(last.json, k).kind # "absent"}
        IN  /\ \A k \in DocKeys \ keys : Resource[last.id][k] = before.Resource[last.id][k]
            /\ last.status = 200 =>
                   \A k \in keys \ {"objectID"} : Resource[last.id][k] = last.index_object[k]
            /\ \A k \in {"upvotes", "downvotes", "times_clicked"} :
                   Resource[last.id][k] = before.Resource[last.id][k]
            /\ "objectID" \in keys /\ last.index_object.objectID = last.id
            /\ keys \ {"objectID"} \subseteq present
            /\ (present = {"name"} /\ Field(last.json, "name").val # "") =>
                   keys = {"objectID", "name"}

\* a document holding only a name was committed
C6_Witness ==
    /\ UpdateServed /\ last.status = 200
    /\ {k \in DocKeys : Field(last.json, k).kind # "absent"} = {"name"}
    /\ Resource[last.id].name = "X"
    /\ before.Resource[last.id].name = "old"

DocValue(json, k) ==
    IF k = "free" THEN Field(json, k).kind = "value" /\ Field(json, k).val = "true"
    ELSE IF k = "notes"
    THEN (IF Field(json, k).kind = "value" THEN Field(json, k)
          ELSE [kind |-> "null", val |-> ""])
    ELSE Field(json, k).val

\* C7: languages is applied iff present and not null, category, name and
\* url iff present and truthy, free and notes iff present: the patch holds
\* exactly those keys, and a committed update gives exactly those fields the
\* document's values and leaves the others as they were.
C7_ApplyRules ==
    (UpdateServed /\ last.index_call # "none") =>
        /\ last.index_object.keys \ {"objectID"} = RuleApplied(last.json)
        /\ last.status = 200 =>
               \A k \in DocKeys :
                   Resource[last.id][k] =
                       IF k \in RuleApplied(last.json) THEN DocValue(last.json, k)
                       ELSE before.Resource[last.id][k]

\* an empty languages list was applied while an empty name was not
C7_Witness ==
    /\ UpdateServed /\ last.status = 200
    /\ Field(last.json, "languages") = [kind |-> "value", val |-> {}]
    /\ Field(last.json, "name") = [kind |-> "value", val |-> ""]
    /\ before.Resource[last.id].languages # {}
    /\ Resource[last.id].languages = {}
    /\ Resource[last.id].name = "old"

C10_DevelopmentToleratesIndexFailure ==
    (/\ UpdateServed
     /\ FLASK_ENV = "development"
     /\ last.index_call \in {"AlgoliaUnreachableHostException", "AlgoliaException"}) =>
        /\ last.steps = <<"query", "apply", "index", "commit">>
        /\ last.raised = "none" =>
               /\ last.status = 200
               /\ last.data = Resource[last.id]
               /\ \A k \in last.index_object.keys \ {"objectID"} :
                      Resource[last.id][k] = last.index_object[k]
               /\ \A l \in before.Resource[last.id].languages :
                      (\A r \in ResIds : l \notin Resource[r].languages) => l \notin Language

\* in development mode the index was unreachable and the request committed
\* a new name and the deletion of a language
C10_Witness ==
    /\ UpdateServed
    /\ FLASK_ENV = "development"
    /\ last.index_call = "AlgoliaUnreachableHostException"
    /\ last.status = 200
    /\ \E l \in before.Language : l \notin Language
    /\ Resource[last.id].name = "X"

Positions(steps, step) == {i \in DOMAIN steps : steps[i] = step}

\* C12: in every update request the commit comes after exactly one index
\* call of that request, which succeeded or failed with an index exception
\* in development mode; in strict mode no commit follows a failed index
\* call; and the committed rows change only in a request that committed.
C12_CommitAfterIndexResolved ==
    UpdateServed =>
        LET commits == Positions(last.steps, "commit")
            calls == Positions(last.steps, "index")
        IN  /\ Cardinality(commits) <= 1
            /\ \A i \in commits :
                   /\ Cardinality({j \in calls : j < i}) = 1
                   /\ \/ last.index_call = "ok"
                      \/ /\ last.index_call \in AlgoliaExceptions
                         /\ FLASK_ENV = "development"
            /\ (FLASK_ENV # "development" /\ last.index_call \notin {"ok", "none"}) =>
                   commits = {} /\ Committed = CommittedBefore
            /\ Committed # CommittedBefore => commits # {} /\ last.status = 200

\* in development mode a request committed new rows after its index call
\* failed
C12_Witness ==
    /\ UpdateServed
    /\ FLASK_ENV = "development"
    /\ last.index_call = "AlgoliaException"
    /\ last.steps = <<"query", "apply", "index", "commit">>
    /\ Committed # CommittedBefore

\* C19 as stated: the index call is the first step of an update request,
\* before the resource is read and before any change is staged.
C19_IndexCallFirst ==
    (UpdateServed /\ Positions(last.steps, "index") # {}) =>
        \A i \in Positions(last.steps, "index") :
            \A j \in Positions(last.steps, "query") \cup Positions(last.steps, "apply") : i < j

\* C19, amended: the index call of an update request is made after the
\* resource was read and the field changes and tag deletions were staged,
\* with the patch those staged changes produced, and before the commit; an
\* update that finds its resource always reads and stages first.
C19_IndexCallBetweenStagingAndCommit ==
    UpdateServed =>
        /\ Len(last.steps) >= 2 /\ last.steps[1] = "query" /\ last.steps[2] = "apply"
        /\ \A i \in Positions(last.steps, "index") :
               /\ i = 3
               /\ \A j \in Positions(last.steps, "commit") : i < j
        /\ (last.index_call = "ok") =>
               \A k \in last.index_object.keys \ {"objectID"} :
                   index[last.id][k] = last.index_object[k]

\* the index received a patch holding the tags staged by the request, whose
\* commit came after
C19_Witness ==
    /\ UpdateServed
    /\ last.index_call = "ok"
    /\ last.steps = <<"query", "apply", "index", "commit">>
    /\ "languages" \in last.index_object.keys
    /\ index[last.id].languages # before.index[last.id].languages

\* C20: in strict mode the index patch of an update request is applied iff
\* the request's changes are committed: a request answered 422 or 500
\* leaves the index document as it was, and the index document agrees with
\* the committed resource on every patched field.
C20_IndexAndDatastoreTogether ==
    (UpdateServed /\ FLASK_ENV # "development") =>
        /\ last.status \in {422, 500} => index = before.index
        /\ index # before.index => last.status = 200
        /\ \A k \in last.index_object.keys \ {"objectID"} :
               index[last.id][k] = Resource[last.id][k]

\* C11: a request that is rejected - an update, vote or click on an id with
\* no resource, or a vote whose direction is neither upvote nor downvote -
\* is answered by the redirect and changes nothing: resources, tags, ledger
\* and index are those of before the request, and no step of the update
\* path, the index call included, has run.
C11_RejectedNoSideEffect ==
    /\ (/\ last.op # "none"
        /\ \/ last.id \notin ResIds
           \/ last.op = "vote" /\ last.direction \notin Directions) =>
           last.status = 302
    /\ last.status = 302 =>
           /\ Snapshot = before
           /\ last.index_call = "none"
           /\ last.steps = <<>>

\* a vote of direction sideways was rejected on a resource the voter holds
\* a vote on
C11_Witness ==
    /\ last.op = "vote" /\ last.status = 302
    /\ last.id \in ResIds
    /\ last.direction = "sideways"
    /\ VoteInformation[<<last.key, last.id>>] \in Directions

FrameFields == {"name", "url", "free", "notes", "languages", "category", "times_clicked"}

\* C17: a served vote of voter A on resource R changes only R's upvotes and
\* downvotes and the ledger row (A, R): the other ledger rows, the other
\* resources, R's other fields, the tags and the index are as before; and
\* no request of any route deletes a ledger row.
C17_VoteFrame ==
    /\ VoteServed =>
           /\ \A p \in (ApiKeys \X ResIds) \ {<<last.key, last.id>>} :
                  VoteInformation[p] = before.VoteInformation[p]
           /\ \A r \in ResIds \ {last.id} : Resource[r] = before.Resource[r]
           /\ \A k \in FrameFields : Resource[last.id][k] = before.Resource[last.id][k]
           /\ Language = before.Language /\ Category = before.Category
           /\ index = before.index
    /\ \A p \in ApiKeys \X ResIds :
           before.VoteInformation[p] # NoRow => VoteInformation[p] # NoRow

\* a vote toggled off: its row is kept with direction null
C17_Witness ==
    /\ VoteServed
    /\ before.VoteInformation[<<last.key, last.id>>] = "upvote"
    /\ VoteInformation[<<last.key, last.id>>] = Null

\* C18: in every committed state reached by update requests served one at
\* a time, every Language of a resource's languages and every resource's
\* Category is a row of the datastore.
C18_TagsReferentialIntegrity ==
    \A r \in ResIds :
        /\ Resource[r].languages \subseteq Language
        /\ Resource[r].category \in Category

\* after two updates a language dropped by one resource is still referenced
\* by the other and kept, while another one was deleted
C18_Witness ==
    /\ UpdateServed /\ last.status = 200
    /\ nupdates >= 2
    /\ \E l \in before.Resource[last.id].languages :
           /\ l \notin Resource[last.id].languages
           /\ \E r \in ResIds : l \in Resource[r].languages
           /\ l \in Language
    /\ Language # before.Language

\* C13: with vote requests of several voters interleaving between their
\* read and their commit, every committed state has each resource's
\* upvotes equal to the number of its ledger rows of direction upvote and
\* its downvotes to the number of direction downvote.
C13_CountersMatchLedgerConcurrently ==
    \A id \in ResIds :
        /\ Resource[id].upvotes = LedgerCount(VoteInformation, id, "upvote")
        /\ Resource[id].downvotes = LedgerCount(VoteInformation, id, "downvote")

\* worker w has committed an update that dropped language l from the
\* resource it read
Dropped(w, l) ==
    /\ inflight[w].pc = "done" /\ inflight[w].op = "update" /\ inflight[w].status = 200
    /\ l \in inflight[w].resource.languages
    /\ l \notin inflight[w].session.Resource[inflight[w].id].languages

\* C14: once two update requests that each dropped language L from a
\* different resource have both committed, and no resource references L, L
\* is not a row of the datastore, whatever the interleaving of their steps.
C14_ConcurrentRemovalLeavesNoOrphan ==
    \A l \in LangNames :
        (/\ Dropped("w1", l) /\ Dropped("w2", l)
         /\ inflight["w1"].id # inflight["w2"].id
         /\ \A r \in ResIds : l \notin Resource[r].languages) =>
            l \notin Language

\* C15: with vote and click requests interleaving between their read and
\* their commit, upvotes, downvotes and times_clicked of every resource are
\* never negative.
C15_CountersNeverNegative ==
    \A id \in ResIds :
        /\ Resource[id].upvotes >= 0
        /\ Resource[id].downvotes >= 0
        /\ Resource[id].times_clicked >= 0

\* C16: no step of interleaved click requests lowers the times_clicked of
\* a resource.
C16_ClicksMonotonic ==
    [][\A id \in ResIds : Resource'[id].times_clicked >= Resource[id].times_clicked]_vars
====
